---- MODULE Spec2Model ----
(***************************************************************************)
(* Procure-Smart: the tabular loader (single_compare.detect_valid_data),   *)
(* the label-column heuristic, the single-parameter bar comparison, the    *)
(* weighted scorer (weighted_compare.generate_weighted_compare_chart) and  *)
(* the pyplot figure registry the chart generators draw through.           *)
(*                                                                         *)
(* A cell is missing (NaN), a text (a sequence of one-character strings,   *)
(* as pandas reads a CSV field with dtype=object) or a number.             *)
(* Numbers are exact: a scaled value or a score is a fraction [n, d] with  *)
(* d > 0, compared by cross-multiplication (the code's floats are not      *)
(* modelled bit for bit).                                                  *)
(***************************************************************************)
EXTENDS Integers, Sequences, FiniteSets, TLC

VARIABLES
    file,         \* the uploaded file: whether it exists, and its extension (lower-cased)
    raw,          \* raw_df: the rows pd.read_csv(header=None, dtype=object) returned
    df,           \* LabeledTable returned by detect_valid_data
    numeric_df,   \* NumericTable returned by detect_valid_data
    pc,           \* position of the running call
    outcome,      \* "" while running, else the error raised, or "ok"
    params,       \* weighted: requested columns; single: <<parameter>>
    weights,      \* weighted: supplied weights, then the normalised ones as w / total
    total_weight, \* weighted: sum(weights)
    preferences,  \* preference per requested column
    ranges,       \* weighted: (min, max) per requested column
    top_n,        \* row cap
    min_score,    \* weighted: global score range
    max_score,
    label_col,    \* result of _detect_label_column
    working,      \* the working DataFrame
    scaled,       \* weighted: scale() output per requested column
    chart,        \* the labels and values handed to the bar plot
    plt,          \* matplotlib.pyplot's figure registry (process-wide)
    files,        \* static/graphs: file name -> image content
    filename,     \* the file name the call returns
    calls         \* concurrent requests: each one's position in its plotting code

tableVars == <<file, raw, df, numeric_df>>
callVars == <<params, weights, total_weight, preferences, ranges, top_n, min_score, max_score>>
workVars == <<label_col, working, scaled, chart>>
plotVars == <<plt, files, filename, calls>>

----------------------------------------------------------------------------
(* Text and numbers *)

\* A cell: NaN, a str, or a number
NaN == [k |-> "nan", s |-> <<>>, v |-> 0]
Text(s) == [k |-> "text", s |-> s, v |-> 0]
Num(x) == [k |-> "num", s |-> <<>>, v |-> x]

\* pd.isna(cell)
IsNa(cell) == cell.k = "nan"

Digits == <<"0", "1", "2", "3", "4", "5", "6", "7", "8", "9">>
Upper == <<"A", "B", "C", "D", "E", "F", "G", "H", "I", "J", "K", "L", "M",
           "N", "O", "P", "Q", "R", "S", "T", "U", "V", "W", "X", "Y", "Z">>
Lower == <<"a", "b", "c", "d", "e", "f", "g", "h", "i", "j", "k", "l", "m",
           "n", "o", "p", "q", "r", "s", "t", "u", "v", "w", "x", "y", "z">>

IsDigit(c) == \E i \in DOMAIN Digits : Digits[i] = c
DigitVal(c) == (CHOOSE i \in DOMAIN Digits : Digits[i] = c) - 1

\* str.lower() of one character, then of a str
LowerChar(c) ==
    IF \E i \in DOMAIN Upper : Upper[i] = c
    THEN Lower[CHOOSE i \in DOMAIN Upper : Upper[i] = c]
    ELSE c
LowerText(s) == [i \in DOMAIN s |-> LowerChar(s[i])]

\* k in s: substring test
Contains(k, s) ==
    \E i \in 0..(Len(s) - Len(k)) : \A j \in 1..Len(k) : s[i + j] = k[j]

RECURSIVE DecimalValue(_, _)
DecimalValue(s, acc) ==
    IF s = <<>> THEN acc ELSE DecimalValue(Tail(s), 10 * acc + DigitVal(Head(s)))

AllDigits(s) == s # <<>> /\ \A i \in DOMAIN s : IsDigit(s[i])

\* pd.to_numeric(cell, errors='coerce') on one cell
ToNumeric(cell) ==
    IF cell.k = "num" THEN cell
    ELSE IF cell.k = "text" /\ AllDigits(cell.s) THEN Num(DecimalValue(cell.s, 0))
    ELSE IF cell.k = "text" /\ cell.s # <<>> /\ Head(cell.s) = "-" /\ AllDigits(Tail(cell.s))
         THEN Num(0 - DecimalValue(Tail(cell.s), 0))
         ELSE NaN

\* str(n) of an integer
RECURSIVE NatText(_)
NatText(n) == IF n < 10 THEN <<Digits[n + 1]>> ELSE NatText(n \div 10) \o <<Digits[(n % 10) + 1]>>
IntText(n) == IF n < 0 THEN <<"-">> \o NatText(0 - n) ELSE NatText(n)

\* Series.astype(str) of one cell; a number of a float64 column prints with ".0"
AsStr(cell, isFloat) ==
    IF cell.k = "text" THEN cell.s
    ELSE IF cell.k = "nan" THEN <<"n", "a", "n">>
    ELSE IntText(cell.v) \o (IF isFloat THEN <<".", "0">> ELSE <<>>)

----------------------------------------------------------------------------
(* DataFrames: column names, pandas index labels (0-based), rows of cells *)

EmptyFrame == [columns |-> <<>>, index |-> <<>>, rows |-> <<>>]

\* DataFrame.empty: some axis has length 0
FrameEmpty(f) == Len(f.columns) = 0 \/ Len(f.rows) = 0

\* the members of a set of positions, ascending
Ascending(n, keep) == SelectSeq([i \in 1..n |-> i], LAMBDA i : i \in keep)

\* the rows at the given positions, with their index labels
TakeRows(f, keep) ==
    LET pos == Ascending(Len(f.rows), keep)
    IN  [columns |-> f.columns,
         index |-> [j \in DOMAIN pos |-> f.index[pos[j]]],
         rows |-> [j \in DOMAIN pos |-> f.rows[pos[j]]]]

TakeCols(f, keep) ==
    LET pos == Ascending(Len(f.columns), keep)
    IN  [columns |-> [j \in DOMAIN pos |-> f.columns[pos[j]]],
         index |-> f.index,
         rows |-> [r \in DOMAIN f.rows |-> [j \in DOMAIN pos |-> f.rows[r][pos[j]]]]]

\* dropna(axis=0, how='any')
DropnaRowsAny(f) ==
    TakeRows(f, {r \in DOMAIN f.rows : \A c \in DOMAIN f.rows[r] : ~IsNa(f.rows[r][c])})

\* dropna(axis=0, how='all'), dropna(axis=1, how='all')
DropnaRowsAll(f) ==
    TakeRows(f, {r \in DOMAIN f.rows : \E c \in DOMAIN f.rows[r] : ~IsNa(f.rows[r][c])})
DropnaColsAll(f) ==
    TakeCols(f, {c \in DOMAIN f.columns : \E r \in DOMAIN f.rows : ~IsNa(f.rows[r][c])})

\* reset_index(drop=True)
ResetIndex(f) == [f EXCEPT !.index = [j \in DOMAIN f.rows |-> j - 1]]

\* df.apply(pd.to_numeric, errors='coerce')
ApplyToNumeric(f) ==
    [f EXCEPT !.rows = [r \in DOMAIN f.rows |->
                          [c \in DOMAIN f.rows[r] |-> ToNumeric(f.rows[r][c])]]]

\* name in f.columns
HasColumn(f, name) == \E c \in DOMAIN f.columns : f.columns[c] = name

\* position of the column called name
ColPos(f, name) ==
    CHOOSE c \in DOMAIN f.columns :
        f.columns[c] = name /\ \A b \in 1..(c - 1) : f.columns[b] # name

----------------------------------------------------------------------------
(* single_compare.detect_valid_data *)

\* row.dropna().shape[0]
NonEmptyCount(row) == Cardinality({c \in DOMAIN row : ~IsNa(row[c])})

\* a scan that takes the first row with any non-empty cell
RECURSIVE HeaderScanAnyCell(_, _)
HeaderScanAnyCell(rws, i) ==
    IF i > Len(rws) THEN 0
    ELSE IF NonEmptyCount(rws[i]) >= 1 THEN i
    ELSE HeaderScanAnyCell(rws, i + 1)

\* for idx, row in raw_df.iterrows(): if row.dropna().shape[0] >= 2
RECURSIVE HeaderScan(_, _)
HeaderScan(rws, i) ==
    IF i > Len(rws) THEN 0
    ELSE IF NonEmptyCount(rws[i]) >= 2 THEN i
    ELSE HeaderScan(rws, i + 1)

\* headers[:df.shape[1]], or headers + [col_i ...]
AssignHeaders(headers, width) ==
    IF Len(headers) >= width THEN SubSeq(headers, 1, width)
    ELSE headers \o [j \in 1..(width - Len(headers)) |->
                        Text(<<"c", "o", "l", "_">> \o NatText(Len(headers) + j - 1))]

DetectValidData(rws) ==
    LET idx == HeaderScan(rws, 1)
    IN  IF idx = 0
        THEN [df |-> EmptyFrame, numeric_df |-> EmptyFrame]
        ELSE
          LET headers == rws[idx]
              body == SubSeq(rws, idx + 1, Len(rws))
              width == IF body = <<>> THEN Len(headers) ELSE Len(body[1])
              below == [columns |-> AssignHeaders(headers, width),
                        index |-> [j \in DOMAIN body |-> j - 1],
                        rows |-> body]
              d == DropnaColsAll(DropnaRowsAll(below))
              n == DropnaRowsAll(DropnaColsAll(ApplyToNumeric(d)))
          IN  [df |-> ResetIndex(d), numeric_df |-> ResetIndex(n)]

----------------------------------------------------------------------------
(* single_compare._detect_label_column *)

keywords == << <<"n", "a", "m", "e">>, <<"c", "o", "m", "p", "a", "n", "y">>,
               <<"s", "e", "l", "l", "e", "r">>, <<"b", "r", "a", "n", "d">>,
               <<"p", "r", "o", "d", "u", "c", "t">> >>

NoLabel == [none |-> TRUE, col |-> NaN]
Label(col) == [none |-> FALSE, col |-> col]

\* isinstance(col, str) and any(k in col for k in keywords): no lower()
HasKeywordAsWritten(col) ==
    col.k = "text" /\ \E i \in DOMAIN keywords : Contains(keywords[i], col.s)

\* isinstance(col, str) and any(k in col.lower() for k in keywords)
HasKeyword(col) ==
    col.k = "text" /\ \E i \in DOMAIN keywords : Contains(keywords[i], LowerText(col.s))

\* for col in df.columns: if <keyword>: return col
RECURSIVE KeywordScan(_, _)
KeywordScan(columns, i) ==
    IF i > Len(columns) THEN 0
    ELSE IF HasKeyword(columns[i]) THEN i
    ELSE KeywordScan(columns, i + 1)

\* for col in df.columns: if col not in numeric_cols: return col
RECURSIVE NonNumericScan(_, _, _)
NonNumericScan(columns, numeric_cols, i) ==
    IF i > Len(columns) THEN 0
    ELSE IF \A j \in DOMAIN numeric_cols : numeric_cols[j] # columns[i] THEN i
    ELSE NonNumericScan(columns, numeric_cols, i + 1)

DetectLabelColumn(columns, numeric_cols) ==
    IF KeywordScan(columns, 1) # 0 THEN Label(columns[KeywordScan(columns, 1)])
    ELSE IF NonNumericScan(columns, numeric_cols, 1) # 0
         THEN Label(columns[NonNumericScan(columns, numeric_cols, 1)])
    ELSE IF Len(columns) > 0 THEN Label(columns[1])
    ELSE NoLabel

----------------------------------------------------------------------------
(* Fractions, sorting, head *)

Frac(n, d) == [n |-> n, d |-> d]
FracLe(a, b) == a.n * b.d <= b.n * a.d
FracEq(a, b) == a.n * b.d = b.n * a.d

Perms(n) == {p \in [1..n -> 1..n] : \A a, b \in 1..n : a # b => p[a] # p[b]}

\* sort_values(by=..., ascending=...): the default sort is not stable, so rows
\* with equal keys may come out in any order
SortedOrders(keys, ascending) ==
    {p \in Perms(Len(keys)) :
        \A a \in 1..(Len(keys) - 1) :
            IF ascending THEN FracLe(keys[p[a]], keys[p[a + 1]])
                         ELSE FracLe(keys[p[a + 1]], keys[p[a]])}

Reorder(f, p) ==
    [f EXCEPT !.index = [j \in DOMAIN p |-> f.index[p[j]]],
              !.rows = [j \in DOMAIN p |-> f.rows[p[j]]]]

\* DataFrame.head(n): the first n rows, all but the last -n for a negative n
HeadCount(len, n) ==
    IF n >= 0 THEN (IF n < len THEN n ELSE len)
    ELSE (IF len + n > 0 THEN len + n ELSE 0)
FrameHead(f, n) == TakeRows(f, 1..HeadCount(Len(f.rows), n))

\* the cells of one column, top to bottom
Column(f, c) == [r \in DOMAIN f.rows |-> f.rows[r][c]]

MaxOf(S) == CHOOSE x \in S : \A y \in S : y <= x
MinOf(S) == CHOOSE x \in S : \A y \in S : x <= y

----------------------------------------------------------------------------
(* matplotlib.pyplot: the open figures in creation/activation order (the    *)
(* last one is the current figure), each figure's artists, and the next     *)
(* figure object.  Every pyplot call acts on the current figure.            *)

NoFigures == [figs |-> <<>>, open |-> <<>>, next |-> 1]
NoFile == [hex |-> 0, rest |-> <<>>]

\* plt.figure() / plt.subplots(): a new figure, made current
PltFigure(p) ==
    [figs |-> (p.next :> {}) @@ p.figs, open |-> Append(p.open, p.next), next |-> p.next + 1]

\* plt.gcf(): the current figure; pyplot opens one when none is open
PltGcf(p) == IF p.open = <<>> THEN PltFigure(p) ELSE p
Current(p) == p.open[Len(p.open)]

\* an Axes/Figure method on a figure object (a closed figure is not drawn again)
DrawOn(p, fig, artists) ==
    IF fig \in DOMAIN p.figs THEN [p EXCEPT !.figs[fig] = @ \cup artists] ELSE p

\* plt.barh, plt.xlabel, plt.xticks, ...: draw on the current figure
PltDraw(p, artists) == DrawOn(PltGcf(p), Current(PltGcf(p)), artists)

\* plt.close(): close the current figure, if any
PltClose(p) ==
    IF p.open = <<>> THEN p
    ELSE [p EXCEPT !.open = SubSeq(p.open, 1, Len(p.open) - 1),
                   !.figs = [f \in DOMAIN p.figs \ {Current(p)} |-> p.figs[f]]]

\* plt.savefig(full_path): the current figure's image, written over any file of that name
Savefig(fs, p, name) ==
    [n \in DOMAIN fs \cup {name} |->
        IF n = name THEN PltGcf(p).figs[Current(PltGcf(p))] ELSE fs[n]]

\* what one call draws: its bars and its axis texts
Bars(who) == [by |-> who, part |-> "bars"]
Texts(who) == [by |-> who, part |-> "texts"]

----------------------------------------------------------------------------
(* Values a call starts from, and the tables the specifications read *)

None == [none |-> TRUE, n |-> 0, d |-> 1]
Some(n, d) == [none |-> FALSE, n |-> n, d |-> d]

NoChart == [labels |-> <<>>, values |-> <<>>, ylabel |-> <<>>, xlabel |-> <<>>, log |-> FALSE]

CallIdle ==
    /\ params = <<>> /\ weights = <<>> /\ total_weight = 0 /\ preferences = <<>>
    /\ ranges = <<>> /\ top_n = 0 /\ min_score = None /\ max_score = None
WorkIdle ==
    /\ label_col = NoLabel /\ working = EmptyFrame /\ scaled = <<>> /\ chart = NoChart
PlotIdle ==
    /\ plt = NoFigures /\ files = <<>> /\ filename = NoFile /\ calls = <<>>
NotLoaded ==
    /\ df = EmptyFrame /\ numeric_df = EmptyFrame /\ pc = "start" /\ outcome = ""

tName == Text(<<"N", "a", "m", "e">>)
tPrice == Text(<<"P", "r", "i", "c", "e">>)
tQty == Text(<<"Q", "t", "y">>)
tA == Text(<<"A">>)
tB == Text(<<"B">>)
tC == Text(<<"C">>)
tD == Text(<<"D">>)
tE == Text(<<"E">>)
tCity == Text(<<"C", "i", "t", "y">>)
tX == Text(<<"x">>)
t1 == Text(<<"1">>)
t2 == Text(<<"2">>)
t5 == Text(<<"5">>)
t10 == Text(<<"1", "0">>)
t20 == Text(<<"2", "0">>)
tTitle == Text(<<"R", "e", "p", "o", "r", "t">>)

\* all sequences over pool of length lo..hi
SeqsOf(pool, lo, hi) == UNION {[1..n -> pool] : n \in lo..hi}

----------------------------------------------------------------------------
(* single_compare.generate_single_compare_chart *)

DefaultTopN == 10
LogRatio == 1000

\* working[c] = pd.to_numeric(working[c], errors='coerce')
CoerceColumn(f, c) ==
    [f EXCEPT !.rows = [r \in DOMAIN f.rows |-> [f.rows[r] EXCEPT ![c] = ToNumeric(@)]]]

\* dropna(subset=cols)
DropnaSubset(f, cols) ==
    TakeRows(f, {r \in DOMAIN f.rows : \A c \in cols : ~IsNa(f.rows[r][c])})

\* a numeric column that held a NaN is float64, else int64
IsFloatColumn(f, c) == \E r \in DOMAIN f.rows : IsNa(ToNumeric(f.rows[r][c]))

SingleWorking(d, parameter) ==
    DropnaSubset(CoerceColumn(d, ColPos(d, parameter)), {ColPos(d, parameter)})

\* top_n = int(top_n) if int(top_n) > 0 else 10; top_n = min(top_n, len(working))
EffectiveTopN(n, len) ==
    LET t == IF n > 0 THEN n ELSE DefaultTopN
    IN  IF t < len THEN t ELSE len

\* vals.max() / max(vals.min(), 1e-9) > 1000
UseLog(vals) ==
    LET lo == MinOf({vals[i] : i \in DOMAIN vals})
        hi == MaxOf({vals[i] : i \in DOMAIN vals})
    IN  IF lo >= 1 THEN hi > LogRatio * lo ELSE hi * 1000000000 > LogRatio

SingleError(t, parameter) ==
    IF ~file.exists THEN "FileNotFound"
    ELSE IF file.ext \notin {".csv", ".xls", ".xlsx"} THEN "UnsupportedFormat"
    ELSE IF FrameEmpty(t.df) \/ FrameEmpty(t.numeric_df) THEN "NoValidData"
    ELSE IF ~HasColumn(t.numeric_df, parameter) THEN "ParameterNotFound"
    ELSE IF DetectLabelColumn(t.df.columns, t.numeric_df.columns).none THEN "NoLabelColumn"
    ELSE IF FrameEmpty(SingleWorking(t.df, parameter)) THEN "NoValidData"
    ELSE ""

\* the rows plotted had the frame not been sorted
SingleTopUnsorted(t, parameter, n, order) ==
    FrameHead(SingleWorking(t.df, parameter), EffectiveTopN(n, Len(order)))

\* the rows plotted, for one order the sort may return
SingleTop(t, parameter, n, order) ==
    FrameHead(Reorder(SingleWorking(t.df, parameter), order),
              EffectiveTopN(n, Len(order)))

SingleChart(t, parameter, top) ==
    LET label == DetectLabelColumn(t.df.columns, t.numeric_df.columns).col
        c == ColPos(top, parameter)
        vals == [r \in DOMAIN top.rows |-> top.rows[r][c].v]
    IN  [labels |-> [r \in DOMAIN top.rows |->
                        AsStr(top.rows[r][ColPos(top, label)],
                              IsFloatColumn(t.df, ColPos(t.df, label)))],
         values |-> vals,
         ylabel |-> AsStr(label, FALSE),
         xlabel |-> IF UseLog(vals)
                    THEN parameter.s \o <<" ", "(", "l", "o", "g", " ", "s", "c", "a", "l", "e", ")">>
                    ELSE parameter.s,
         log |-> UseLog(vals)]

\* plt.figure(); plt.barh(...); plt.xlabel ... plt.tight_layout()
SinglePlot(p, who) == PltDraw(PltDraw(PltFigure(p), {Bars(who)}), {Texts(who)})

----------------------------------------------------------------------------
(* weighted_compare.scale and generate_weighted_compare_chart *)

FracAdd(a, b) == Frac(a.n * b.d + b.n * a.d, a.d * b.d)
FracMul(a, b) == Frac(a.n * b.n, a.d * b.d)

RECURSIVE SumSeq(_)
SumSeq(xs) == IF xs = <<>> THEN 0 ELSE Head(xs) + SumSeq(Tail(xs))

RECURSIVE FracSum(_)
FracSum(xs) == IF xs = <<>> THEN Frac(0, 1) ELSE FracAdd(Head(xs), FracSum(Tail(xs)))

\* scale() with the reverse flag ignored
scaleNeverReversed(data, reverse) ==
    LET min_val == MinOf({data[i] : i \in DOMAIN data})
        max_val == MaxOf({data[i] : i \in DOMAIN data})
    IN  IF max_val - min_val = 0 THEN [i \in DOMAIN data |-> Frac(0, 1)]
        ELSE [i \in DOMAIN data |-> Frac(data[i] - min_val, max_val - min_val)]

\* scale() dividing by the maximum instead of the spread
scaleByMax(data, reverse) ==
    LET min_val == MinOf({data[i] : i \in DOMAIN data})
        max_val == MaxOf({data[i] : i \in DOMAIN data})
    IN  IF max_val - min_val = 0 THEN [i \in DOMAIN data |-> Frac(0, 1)]
        ELSE IF reverse
             THEN [i \in DOMAIN data |-> Frac((max_val - min_val) - data[i], max_val - min_val)]
             ELSE [i \in DOMAIN data |-> Frac(data[i], max_val - min_val)]

\* scale(data, reverse=False)
scale(data, reverse) ==
    LET min_val == MinOf({data[i] : i \in DOMAIN data})
        max_val == MaxOf({data[i] : i \in DOMAIN data})
    IN  IF max_val - min_val = 0 THEN [i \in DOMAIN data |-> Frac(0, 1)]
        ELSE IF reverse
             THEN [i \in DOMAIN data |->
                     Frac((max_val - min_val) - (data[i] - min_val), max_val - min_val)]
             ELSE [i \in DOMAIN data |-> Frac(data[i] - min_val, max_val - min_val)]

\* working[p] = numeric_df[p]: a column assignment aligns on the index labels;
\* a label the right-hand side lacks gets NaN
AssignAligned(wk, c, src, sc) ==
    [wk EXCEPT !.rows =
        [r \in DOMAIN wk.rows |->
            [wk.rows[r] EXCEPT ![c] =
                IF \E j \in DOMAIN src.index : src.index[j] = wk.index[r]
                THEN src.rows[CHOOSE j \in DOMAIN src.index : src.index[j] = wk.index[r]][sc]
                ELSE NaN]]]

\* for p in params: working[p] = numeric_df[p]
RECURSIVE AssignParams(_, _, _)
AssignParams(wk, src, ps) ==
    IF ps = <<>> THEN wk
    ELSE AssignParams(AssignAligned(wk, ColPos(wk, Head(ps)), src, ColPos(src, Head(ps))),
                      src, Tail(ps))

\* working[working[p] > min_val]: a bound itself is left out
AtLeastStrict(wk, keys, bound) ==
    IF bound.none THEN wk
    ELSE TakeRows(wk, {r \in DOMAIN wk.rows :
                          ~FracLe(keys[r], Frac(bound.n, bound.d))})

\* working[working[p] >= min_val], when min_val is not None
AtLeast(wk, keys, bound) ==
    IF bound.none THEN wk
    ELSE TakeRows(wk, {r \in DOMAIN wk.rows : FracLe(Frac(bound.n, bound.d), keys[r])})

\* working[working[p] <= max_val], when max_val is not None
AtMost(wk, keys, bound) ==
    IF bound.none THEN wk
    ELSE TakeRows(wk, {r \in DOMAIN wk.rows : FracLe(keys[r], Frac(bound.n, bound.d))})

\* the numbers of a numeric column, as fractions
NumberKeys(wk, c) == [r \in DOMAIN wk.rows |-> Frac(wk.rows[r][c].v, 1)]
\* the WeightedScore column
ScoreKeys(wk) == [r \in DOMAIN wk.rows |-> wk.rows[r][Len(wk.columns)].v]

\* for idx, p in enumerate(params): min_val, max_val = ranges[idx]; ...
RECURSIVE ApplyRangeFilters(_, _, _)
ApplyRangeFilters(wk, ps, rs) ==
    IF ps = <<>> THEN wk
    ELSE LET lo == AtLeast(wk, NumberKeys(wk, ColPos(wk, Head(ps))), Head(rs).min)
             hi == AtMost(lo, NumberKeys(lo, ColPos(lo, Head(ps))), Head(rs).max)
         IN  ApplyRangeFilters(hi, Tail(ps), Tail(rs))

\* total_weight <= 0 taken as total_weight < 0
WeightsRejectedIfNegative(total) == total < 0

\* if total_weight <= 0: raise
WeightsRejected(total) == total <= 0

\* scaled = scale(working[p].tolist(), reverse=(preferences[idx] == "lower")), per idx
ScaleAll(wk, ps, prefs) ==
    [idx \in DOMAIN ps |->
        scale([r \in DOMAIN wk.rows |-> wk.rows[r][ColPos(wk, ps[idx])].v],
              prefs[idx] = "lower")]

\* np.sum([[s * weights[idx] for s in scaled] ...], axis=0), weights already w / total
WeightedScores(sc, ws, total, nrows) ==
    [r \in 1..nrows |->
        FracSum([idx \in DOMAIN sc |-> FracMul(sc[idx][r], Frac(ws[idx], total))])]

tWeightedScore == Text(<<"W", "e", "i", "g", "h", "t", "e", "d", "S", "c", "o", "r", "e">>)

\* working["WeightedScore"] = values
AddColumn(wk, name, values) ==
    [wk EXCEPT !.columns = Append(@, name),
               !.rows = [r \in DOMAIN wk.rows |-> Append(wk.rows[r], Num(values[r]))]]

\* apply_dark_theme(); fig, ax = plt.subplots(); ax.bar(...); ax.set_ylabel; ax.set_title;
\* plt.xticks(rotation=90); fig.tight_layout(); fig.subplots_adjust(...)
WeightedPlot(p, who) ==
    PltDraw(DrawOn(PltFigure(p), p.next, {Bars(who)}), {Texts(who)})

----------------------------------------------------------------------------
(* The loader on its own *)

MaxRawRows == 4

LoaderRows ==
    { <<NaN, NaN, NaN>>,          \* a line of commas only
      <<tTitle, NaN, NaN>>,       \* a title line: one cell
      <<tName, tPrice, tQty>>,
      <<tA, t5, t1>>,
      <<tB, t10, NaN>>,
      <<tC, tX, NaN>> }           \* no numeric cell

InitLoader ==
    /\ file \in [exists : {TRUE}, ext : {".csv", ".txt"}]
    /\ raw \in SeqsOf(LoaderRows, 0, MaxRawRows)
    /\ NotLoaded /\ CallIdle /\ WorkIdle /\ PlotIdle

\* detect_valid_data(file_path)
Load ==
    /\ pc = "start"
    /\ IF file.ext \notin {".csv", ".xls", ".xlsx"}
       THEN /\ pc' = "error"
            /\ outcome' = "UnsupportedFormat"
            /\ UNCHANGED <<df, numeric_df>>
       ELSE /\ df' = DetectValidData(raw).df
            /\ numeric_df' = DetectValidData(raw).numeric_df
            /\ pc' = "loaded"
            /\ outcome' = "ok"
    /\ UNCHANGED <<file, raw, callVars, workVars, plotVars>>

vars == <<tableVars, pc, outcome, callVars, workVars, plotVars>>

NextLoader == Load
SpecLoader == InitLoader /\ [][NextLoader]_vars

----------------------------------------------------------------------------
(* The loader's claims, stated over the rows read *)

HasTwoCells(row) ==
    \E a, b \in DOMAIN row : a # b /\ ~IsNa(row[a]) /\ ~IsNa(row[b])
FullyEmpty(row) == \A c \in DOMAIN row : IsNa(row[c])
Qualifying == {i \in DOMAIN raw : HasTwoCells(raw[i])}
HeaderAt == CHOOSE i \in Qualifying : \A j \in Qualifying : i <= j
Nth(S, j) == CHOOSE x \in S : Cardinality({y \in S : y < x}) = j - 1

RowsKept == {i \in DOMAIN raw : i > HeaderAt /\ ~FullyEmpty(raw[i])}
ColsKept == {c \in DOMAIN raw[HeaderAt] : \E i \in RowsKept : ~IsNa(raw[i][c])}
NumColsKept == {c \in ColsKept : \E i \in RowsKept : ~IsNa(ToNumeric(raw[i][c]))}
NumRowsKept == {i \in RowsKept : \E c \in NumColsKept : ~IsNa(ToNumeric(raw[i][c]))}

\* C5: the header is the first row, top to bottom, with at least two non-empty
\* cells; both tables hold cells of the rows strictly below it only (the rows
\* with a cell, the columns with a cell; for the numeric table the parsed
\* cells); with no such row both tables are empty and no error is raised.
C5_HeaderIsFirstQualifyingRow ==
    pc = "loaded" =>
        IF Qualifying = {}
        THEN df = EmptyFrame /\ numeric_df = EmptyFrame /\ outcome = "ok"
        ELSE LET header == raw[HeaderAt]
                 rowsKept == RowsKept
                 colsKept == ColsKept
                 numRowsKept == NumRowsKept
                 numColsKept == NumColsKept
                 rowAt == [r \in DOMAIN df.rows |-> Nth(rowsKept, r)]
                 colAt == [c \in DOMAIN df.columns |-> Nth(colsKept, c)]
                 numRowAt == [r \in DOMAIN numeric_df.rows |-> Nth(numRowsKept, r)]
                 numColAt == [c \in DOMAIN numeric_df.columns |-> Nth(numColsKept, c)]
             IN  /\ Len(df.rows) = Cardinality(rowsKept)
                 /\ Len(df.columns) = Cardinality(colsKept)
                 /\ \A c \in DOMAIN df.columns : df.columns[c] = header[colAt[c]]
                 /\ \A r \in DOMAIN df.rows : \A c \in DOMAIN df.columns :
                        df.rows[r][c] = raw[rowAt[r]][colAt[c]]
                 /\ Len(numeric_df.rows) = Cardinality(numRowsKept)
                 /\ Len(numeric_df.columns) = Cardinality(numColsKept)
                 /\ \A c \in DOMAIN numeric_df.columns :
                        numeric_df.columns[c] = header[numColAt[c]]
                 /\ \A r \in DOMAIN numeric_df.rows : \A c \in DOMAIN numeric_df.columns :
                        numeric_df.rows[r][c] = ToNumeric(raw[numRowAt[r]][numColAt[c]])

\* a title line above the header, and rows of both tables below it
C5_Witness ==
    /\ pc = "loaded" /\ Qualifying # {} /\ HeaderAt > 1
    /\ ~FullyEmpty(raw[1])
    /\ Len(df.rows) >= 2 /\ Len(numeric_df.rows) >= 1
    /\ Len(numeric_df.rows) < Len(df.rows)

\* C6 as stated: with a header row, the LabeledTable has as many rows as the
\* input, minus the header row, minus the fully-empty rows.
C6_RowCountOfAllInputRows ==
    (pc = "loaded" /\ Qualifying # {}) =>
        Len(df.rows) =
            Len(raw) - 1 - Cardinality({i \in DOMAIN raw : FullyEmpty(raw[i])})

\* C6 amended: with a header row, the LabeledTable has as many rows as there
\* are input rows below the header row, minus the fully-empty rows among them.
C6_RowCountBelowHeader ==
    (pc = "loaded" /\ Qualifying # {}) =>
        Len(df.rows) =
            (Len(raw) - HeaderAt)
            - Cardinality({i \in DOMAIN raw : i > HeaderAt /\ FullyEmpty(raw[i])})

\* a one-cell row above the header, a fully-empty row and a kept row below it
C6_Witness ==
    /\ pc = "loaded" /\ Qualifying # {} /\ HeaderAt > 1
    /\ \E i \in 1..(HeaderAt - 1) : ~FullyEmpty(raw[i])
    /\ \E i \in DOMAIN raw : i > HeaderAt /\ FullyEmpty(raw[i])
    /\ Len(df.rows) >= 1

----------------------------------------------------------------------------
(* The label heuristic on the tables the loader returns *)

tBrand == Text(<<"B", "r", "a", "n", "d">>)
tCompany == Text(<<"C", "O", "M", "P", "A", "N", "Y">>)
tSeller == Text(<<"S", "e", "l", "l", "e", "r", " ", "N", "a", "m", "e">>)

LabelNames == {tName, tBrand, tCompany, tSeller, tPrice, tQty, tCity}
LabelCells == {tA, t5, NaN}

\* a header row of distinct names and one data row below it, or no row at all
LabelTables ==
    {<<>>} \cup
    { <<h, d>> : h \in {x \in [1..3 -> LabelNames] : \A a, b \in 1..3 : a # b => x[a] # x[b]},
                 d \in [1..3 -> LabelCells] }

InitLabel ==
    /\ file = [exists |-> TRUE, ext |-> ".csv"]
    /\ raw \in LabelTables
    /\ NotLoaded /\ CallIdle /\ WorkIdle /\ PlotIdle

\* label_col = _detect_label_column(df, numeric_df.columns.tolist())
DetectLabel ==
    /\ pc = "loaded"
    /\ label_col' = DetectLabelColumn(df.columns, numeric_df.columns)
    /\ pc' = "labelled"
    /\ UNCHANGED <<tableVars, outcome, callVars, working, scaled, chart, plotVars>>

NextLabel == Load \/ DetectLabel
SpecLabel == InitLabel /\ [][NextLabel]_vars

NameHas(col, k) == col.k = "text" /\ Contains(k, LowerText(col.s))
Matching == {c \in DOMAIN df.columns : \E i \in DOMAIN keywords : NameHas(df.columns[c], keywords[i])}
NonNumeric == {c \in DOMAIN df.columns : \A j \in DOMAIN numeric_df.columns :
                                             numeric_df.columns[j] # df.columns[c]}
\* the earliest keyword of the list that some column name contains
BestKeyword ==
    CHOOSE i \in DOMAIN keywords :
        /\ \E c \in DOMAIN df.columns : NameHas(df.columns[c], keywords[i])
        /\ \A j \in 1..(i - 1) : \A c \in DOMAIN df.columns : ~NameHas(df.columns[c], keywords[j])

\* what the heuristic returns when no column name contains a keyword
FallbackLabel ==
    IF NonNumeric # {} THEN Label(df.columns[MinOf(NonNumeric)])
    ELSE IF Len(df.columns) > 0 THEN Label(df.columns[1])
    ELSE NoLabel

\* C8 as stated: among the columns whose name contains a keyword, the keyword
\* list's order decides (the first column containing the earliest keyword that
\* any column contains); else the first non-numeric column, else the first
\* column, else None, and None only with zero columns.
C8_KeywordOrderBreaksTies ==
    pc = "labelled" =>
        /\ label_col =
              IF Matching # {}
              THEN Label(df.columns[MinOf({c \in Matching :
                                              NameHas(df.columns[c], keywords[BestKeyword])})])
              ELSE FallbackLabel
        /\ label_col.none <=> Len(df.columns) = 0

\* C8 amended: the first column, in column order, whose name contains any
\* keyword (case-insensitively); the keyword list's order plays no part; else
\* the first non-numeric column, else the first column, else None, and None
\* only with zero columns.
C8_FirstMatchingColumn ==
    pc = "labelled" =>
        /\ label_col =
              IF Matching # {} THEN Label(df.columns[MinOf(Matching)]) ELSE FallbackLabel
        /\ label_col.none <=> Len(df.columns) = 0

\* two columns match, and the first of them matches a later keyword
C8_Witness ==
    /\ pc = "labelled" /\ Cardinality(Matching) >= 2
    /\ ~NameHas(df.columns[MinOf(Matching)], keywords[BestKeyword])
    /\ label_col = Label(df.columns[MinOf(Matching)])

----------------------------------------------------------------------------
(* The single-parameter bar comparison *)

MaxDataRows == 3
MaxHex == 2

Preferences == {"lower", "higher"}
SingleParameters == {tPrice, tQty, tCity}
SingleTopNs == {0 - 1, 0, 2, 10}
HexIds == 1..MaxHex

DataRows ==
    { <<tA, t10, t1>>,
      <<tB, t5, t1>>,
      <<tC, t20, t2>>,
      <<tD, tX, NaN>>,      \* no numeric cell
      <<tE, t10, NaN>> }

Distinct(seq) == \A a, b \in DOMAIN seq : a # b => seq[a] # seq[b]

\* a header row and up to MaxDataRows different data rows; or nothing usable
DataTables ==
    {<<>>} \cup
    { <<<<tName, tPrice, tQty>>>> \o d :
        d \in {x \in SeqsOf(DataRows, 0, MaxDataRows) : Distinct(x)} }

InitSingle ==
    /\ file \in [exists : BOOLEAN, ext : {".csv"}]
    /\ raw \in DataTables
    /\ NotLoaded /\ CallIdle /\ WorkIdle /\ PlotIdle

GenerateSingleCompareChart ==
    /\ pc = "start"
    /\ \E parameter \in SingleParameters, n \in SingleTopNs, preference \in Preferences :
         LET t == DetectValidData(raw)
             err == SingleError(t, parameter)
         IN  /\ params' = <<parameter>>
             /\ top_n' = n
             /\ preferences' = <<preference>>
             /\ IF err \in {"FileNotFound", "UnsupportedFormat"}
                THEN UNCHANGED <<df, numeric_df>>
                ELSE df' = t.df /\ numeric_df' = t.numeric_df
             /\ IF err # ""
                THEN /\ pc' = "error"
                     /\ outcome' = err
                     /\ UNCHANGED <<workVars, plotVars>>
                ELSE LET w == SingleWorking(t.df, parameter)
                         keys == [r \in DOMAIN w.rows |->
                                    Frac(w.rows[r][ColPos(w, parameter)].v, 1)]
                     IN  \E order \in SortedOrders(keys, preference = "lower"), u \in HexIds :
                           LET top == SingleTop(t, parameter, n, order)
                               name == [hex |-> u, rest |-> <<parameter.s, preference>>]
                           IN  /\ label_col' = DetectLabelColumn(t.df.columns,
                                                                 t.numeric_df.columns)
                               /\ working' = top
                               /\ chart' = SingleChart(t, parameter, top)
                               /\ files' = Savefig(files, SinglePlot(plt, 0), name)
                               /\ plt' = PltClose(SinglePlot(plt, 0))
                               /\ filename' = name
                               /\ pc' = "done"
                               /\ outcome' = "ok"
                               /\ UNCHANGED <<scaled, calls>>
    /\ UNCHANGED <<file, raw, weights, total_weight, ranges, min_score, max_score>>

NextSingle == GenerateSingleCompareChart
SpecSingle == InitSingle /\ [][NextSingle]_vars

\* the rows of the LabeledTable with a numeric value in the chosen column
SingleNumericRows ==
    {r \in DOMAIN df.rows : ~IsNa(ToNumeric(df.rows[r][ColPos(df, params[1])]))}
SingleValue(r) == ToNumeric(df.rows[r][ColPos(df, params[1])]).v
SinglePlotted == {working.index[j] + 1 : j \in DOMAIN working.index}
Better(a, b) == IF preferences[1] = "lower" THEN a <= b ELSE a >= b

\* C4: the bars are min(N, k) different rows among the k rows with a numeric
\* value in the chosen column, N being top_n when top_n > 0 and 10 otherwise;
\* each bar carries its row's label and value; the bars are in ascending
\* ("lower") or descending ("higher") order of the value, and no row left out
\* comes before a plotted one in that order.
C4_TopRowsInOrder ==
    (pc = "done" /\ outcome = "ok") =>
        LET k == Cardinality(SingleNumericRows)
            N == IF top_n > 0 THEN top_n ELSE 10
            m == IF N < k THEN N ELSE k
        IN  /\ Len(chart.values) = m /\ Len(chart.labels) = m /\ Len(working.rows) = m
            /\ Cardinality(SinglePlotted) = m
            /\ SinglePlotted \subseteq SingleNumericRows
            /\ \A j \in 1..m :
                  /\ chart.values[j] = SingleValue(working.index[j] + 1)
                  /\ chart.labels[j] = df.rows[working.index[j] + 1][ColPos(df, label_col.col)].s
            /\ \A j \in 1..(m - 1) : Better(chart.values[j], chart.values[j + 1])
            /\ \A r \in SingleNumericRows \ SinglePlotted :
                  \A j \in 1..m : Better(chart.values[j], SingleValue(r))

\* A = 10, B = 5, C = 20, preference "higher", top_n = 2: C then A, B left out
C4_Witness ==
    /\ pc = "done" /\ outcome = "ok"
    /\ raw = << <<tName, tPrice, tQty>>, <<tA, t10, t1>>, <<tB, t5, t1>>, <<tC, t20, t2>> >>
    /\ params = <<tPrice>> /\ preferences = <<"higher">> /\ top_n = 2
    /\ chart.labels = << <<"C">>, <<"A">> >>
    /\ chart.values = <<20, 10>>

----------------------------------------------------------------------------
(* The weighted scorer, block by block.  An argument is drawn where the     *)
(* code first reads it.                                                     *)

ParamChoices ==
    { <<tPrice>>, <<tQty>>, <<tCity>>,
      <<tPrice, tQty>>, <<tQty, tPrice>>, <<tPrice, tPrice>>, <<tPrice, tCity>> }
WeightChoices == {0 - 1, 0, 2}
RangeChoices ==
    { [min |-> None, max |-> None],
      [min |-> Some(10, 1), max |-> None],
      [min |-> None, max |-> Some(10, 1)] }
ScoreBounds == {None, Some(1, 2)}
WeightedTopNs == {1, 10}

\* the header row, then any of these rows, in this order
WeightedRows == << <<tA, t10, t1>>, <<tD, tX, NaN>>, <<tB, t5, t1>>, <<tC, t20, t2>> >>

WeightedTables ==
    {<<>>} \cup
    { <<<<tName, tPrice, tQty>>>> \o [j \in DOMAIN pos |-> WeightedRows[pos[j]]] :
        pos \in { Ascending(Len(WeightedRows), keep) :
                    keep \in {k \in SUBSET DOMAIN WeightedRows : Cardinality(k) <= MaxDataRows} } }

Init ==
    /\ file \in [exists : BOOLEAN, ext : {".csv"}]
    /\ raw \in WeightedTables
    /\ NotLoaded /\ CallIdle /\ WorkIdle /\ PlotIdle

Raise(err) == pc' = "error" /\ outcome' = err

\* lines 31-46: the file, the tables, the requested columns, the label column
ValidateParams ==
    /\ pc = "start"
    /\ \E ps \in ParamChoices :
         LET t == DetectValidData(raw)
         IN  /\ params' = ps
             /\ IF ~file.exists
                THEN Raise("FileNotFound") /\ UNCHANGED <<df, numeric_df, label_col>>
                ELSE IF file.ext \notin {".csv", ".xls", ".xlsx"}
                THEN Raise("UnsupportedFormat") /\ UNCHANGED <<df, numeric_df, label_col>>
                ELSE /\ df' = t.df
                     /\ numeric_df' = t.numeric_df
                     /\ IF FrameEmpty(t.df) \/ FrameEmpty(t.numeric_df)
                        THEN Raise("NoValidData") /\ UNCHANGED label_col
                        ELSE IF \E i \in DOMAIN ps : ~HasColumn(t.numeric_df, ps[i])
                        THEN Raise("ParameterNotFound") /\ UNCHANGED label_col
                        ELSE /\ label_col' = DetectLabelColumn(t.df.columns,
                                                               t.numeric_df.columns)
                             /\ IF label_col'.none
                                THEN Raise("NoLabelColumn")
                                ELSE pc' = "prepare" /\ UNCHANGED outcome
    /\ UNCHANGED <<file, raw, weights, total_weight, preferences, ranges, top_n,
                   min_score, max_score, working, scaled, chart, plotVars>>

\* lines 49-51: working = df.copy().reset_index(drop=True); working[p] = numeric_df[p]
PrepareWorking ==
    /\ pc = "prepare"
    /\ working' = AssignParams(ResetIndex(df), numeric_df, params)
    /\ pc' = "filter"
    /\ UNCHANGED <<tableVars, outcome, callVars, label_col, scaled, chart, plotVars>>

\* lines 52-63: dropna(subset=params), the per-parameter ranges, the empty check
ApplyRanges ==
    /\ pc = "filter"
    /\ \E rs \in [DOMAIN params -> RangeChoices] :
         /\ ranges' = rs
         /\ working' =
               ApplyRangeFilters(
                   DropnaSubset(working, {ColPos(working, params[i]) : i \in DOMAIN params}),
                   params, rs)
         /\ IF FrameEmpty(working')
            THEN Raise("EmptyAfterFilter")
            ELSE pc' = "weights" /\ UNCHANGED outcome
    /\ UNCHANGED <<tableVars, params, weights, total_weight, preferences, top_n,
                   min_score, max_score, label_col, scaled, chart, plotVars>>

\* lines 66-69: total_weight = sum(weights); the check; weights = [w / total_weight ...]
NormalizeWeights ==
    /\ pc = "weights"
    /\ \E ws \in [DOMAIN params -> WeightChoices] :
         /\ weights' = ws
         /\ total_weight' = SumSeq(ws)
         /\ IF WeightsRejected(total_weight')
            THEN Raise("InvalidWeights")
            ELSE pc' = "scale" /\ UNCHANGED outcome
    /\ UNCHANGED <<tableVars, params, preferences, ranges, top_n, min_score, max_score,
                   workVars, plotVars>>

\* lines 72-80: scale every parameter, weight it, sum into WeightedScore
ScaleAndScore ==
    /\ pc = "scale"
    /\ \E prefs \in [DOMAIN params -> Preferences] :
         /\ preferences' = prefs
         /\ scaled' = ScaleAll(working, params, prefs)
         /\ working' = AddColumn(working, tWeightedScore,
                                 WeightedScores(scaled', weights, total_weight,
                                                Len(working.rows)))
    /\ pc' = "scorefilter"
    /\ UNCHANGED <<tableVars, outcome, params, weights, total_weight, ranges, top_n,
                   min_score, max_score, label_col, chart, plotVars>>

\* lines 83-89: the global score range, the empty check
ApplyScoreFilter ==
    /\ pc = "scorefilter"
    /\ \E lo \in ScoreBounds, hi \in ScoreBounds :
         /\ min_score' = lo
         /\ max_score' = hi
         /\ working' =
               LET kept == AtLeast(working, ScoreKeys(working), lo)
               IN  AtMost(kept, ScoreKeys(kept), hi)
         /\ IF FrameEmpty(working')
            THEN Raise("EmptyAfterFilter")
            ELSE pc' = "plot" /\ UNCHANGED outcome
    /\ UNCHANGED <<tableVars, params, weights, total_weight, preferences, ranges, top_n,
                   label_col, scaled, chart, plotVars>>

\* lines 92-117: sort by score, head(top_n), plot, save under a fresh name, return it
SortAndPlot ==
    /\ pc = "plot"
    /\ \E n \in WeightedTopNs, order \in SortedOrders(ScoreKeys(working), FALSE),
          u \in HexIds :
         LET top == FrameHead(Reorder(working, order), n)
             name == [hex |-> u, rest |-> <<"weighted_compare">>]
         IN  /\ top_n' = n
             /\ working' = top
             /\ chart' = [labels |-> [r \in DOMAIN top.rows |->
                                        AsStr(top.rows[r][ColPos(top, label_col.col)],
                                              IsFloatColumn(df, ColPos(df, label_col.col)))],
                          values |-> ScoreKeys(top),
                          ylabel |-> <<"W", "e", "i", "g", "h", "t", "e", "d", " ",
                                       "S", "c", "o", "r", "e">>,
                          xlabel |-> <<>>,
                          log |-> FALSE]
             /\ files' = Savefig(files, WeightedPlot(plt, 0), name)
             /\ plt' = PltClose(WeightedPlot(plt, 0))
             /\ filename' = name
    /\ pc' = "done"
    /\ outcome' = "ok"
    /\ UNCHANGED <<tableVars, params, weights, total_weight, preferences, ranges,
                   min_score, max_score, label_col, scaled, calls>>

Next ==
    \/ ValidateParams
    \/ PrepareWorking
    \/ ApplyRanges
    \/ NormalizeWeights
    \/ ScaleAndScore
    \/ ApplyScoreFilter
    \/ SortAndPlot

Spec == Init /\ [][Next]_vars

----------------------------------------------------------------------------
(* The weighted scorer's claims *)

InUnit(f) == 0 <= f.n /\ f.n <= f.d
OneMinus(f) == Frac(f.d - f.n, f.d)
Scored == pc \in {"scorefilter", "plot", "done"}

ScaledInUnit ==
    \A idx \in DOMAIN scaled : \A r \in DOMAIN scaled[idx] : InUnit(scaled[idx][r])
ScoresInUnit ==
    \A r \in DOMAIN working.rows : InUnit(ScoreKeys(working)[r])

\* C1 as stated: whenever the weights pass the check (their sum is > 0), every
\* scaled value and every row's WeightedScore lies in [0, 1].
C1_ScoresInUnitForAcceptedWeights ==
    Scored => (ScaledInUnit /\ ScoresInUnit)

\* C1 amended: every scaled value lies in [0, 1]; when moreover no weight is
\* negative (and the sum is > 0), every row's WeightedScore lies in [0, 1].
C1_ScoresInUnitForNonNegativeWeights ==
    Scored =>
        /\ ScaledInUnit
        /\ (\A idx \in DOMAIN weights : weights[idx] >= 0) => ScoresInUnit

\* two parameters, one of weight 0, scores 0 and 1 both present
C1_Witness ==
    /\ pc = "scorefilter" /\ Len(params) = 2
    /\ \A idx \in DOMAIN weights : weights[idx] >= 0
    /\ \E idx \in DOMAIN weights : weights[idx] = 0
    /\ \E r \in DOMAIN working.rows : FracEq(ScoreKeys(working)[r], Frac(1, 1))
    /\ \E r \in DOMAIN working.rows : FracEq(ScoreKeys(working)[r], Frac(0, 1))

\* the values scale() was given for the idx-th parameter (the frame is not
\* filtered between scaling and the score filter)
ScaledData(idx) ==
    [r \in DOMAIN working.rows |-> working.rows[r][ColPos(working, params[idx])].v]
ConstantData(idx) ==
    \A a, b \in DOMAIN working.rows : ScaledData(idx)[a] = ScaledData(idx)[b]
InvertedAt(idx) ==
    \A r \in DOMAIN working.rows :
        FracEq(scaled[idx][r], OneMinus(scale(ScaledData(idx), FALSE)[r]))

\* C2 as stated: for every column content, a column scored with preference
\* "lower" contributes 1 - s in every row, s being the row's scaled value
\* under "higher" on the same rows.
C2_LowerIsOneMinusHigher ==
    pc = "scorefilter" =>
        \A idx \in DOMAIN params : preferences[idx] = "lower" => InvertedAt(idx)

\* C2 amended: that holds for every column whose values are not all equal on
\* the filtered rows; a column that is constant there contributes 0 in every
\* row under "lower" as under "higher".
C2_LowerIsOneMinusHigherUnlessConstant ==
    pc = "scorefilter" =>
        \A idx \in DOMAIN params :
            preferences[idx] = "lower" =>
                IF ConstantData(idx)
                THEN \A r \in DOMAIN working.rows :
                        /\ FracEq(scaled[idx][r], Frac(0, 1))
                        /\ FracEq(scale(ScaledData(idx), FALSE)[r], Frac(0, 1))
                ELSE InvertedAt(idx)

\* a "lower" column with three different values: one row strictly inside (0, 1)
C2_Witness ==
    /\ pc = "scorefilter"
    /\ \E idx \in DOMAIN params :
          /\ preferences[idx] = "lower" /\ ~ConstantData(idx)
          /\ \E r \in DOMAIN working.rows :
                0 < scaled[idx][r].n /\ scaled[idx][r].n < scaled[idx][r].d

Readable ==
    /\ file.exists /\ file.ext \in {".csv", ".xls", ".xlsx"}
    /\ ~FrameEmpty(df) /\ ~FrameEmpty(numeric_df)
ColumnMissing == \E i \in DOMAIN params : ~HasColumn(numeric_df, params[i])
Within(v, range) ==
    /\ range.min.none \/ range.min.n <= v * range.min.d
    /\ range.max.none \/ v * range.max.d <= range.max.n
\* the value the working table holds for row r, i-th parameter: the one
\* numeric_df holds under the same index label
AlignedCell(r, i) ==
    IF r <= Len(numeric_df.rows)
    THEN numeric_df.rows[r][ColPos(numeric_df, params[i])]
    ELSE NaN
NoRowInRanges ==
    \A r \in DOMAIN df.rows :
        \E i \in DOMAIN params :
            IsNa(AlignedCell(r, i)) \/ ~Within(AlignedCell(r, i).v, ranges[i])
WeightSumNotPositive == SumSeq(weights) <= 0
RowScore(r) ==
    FracSum([idx \in DOMAIN scaled |->
                FracMul(scaled[idx][r], Frac(weights[idx], total_weight))])
ScoreWithin(f) ==
    /\ min_score.none \/ FracLe(Frac(min_score.n, min_score.d), f)
    /\ max_score.none \/ FracLe(f, Frac(max_score.n, max_score.d))
NoScoreInRange ==
    \A idx \in DOMAIN scaled : \A r \in DOMAIN scaled[idx] : ~ScoreWithin(RowScore(r))

\* C3: for a readable file with non-empty tables the call ends in the first of:
\* ParameterNotFound (a requested column is not numeric), EmptyAfterFilter (no
\* row survives the NaN drop and the per-column ranges), InvalidWeights (the
\* weights sum to <= 0), EmptyAfterFilter (no score in the global range); it
\* writes a file and returns its name exactly when none of the four holds.
C3_FirstFailingCondition ==
    (Readable /\ pc \in {"error", "done"}) =>
        /\ outcome \in {"ParameterNotFound", "EmptyAfterFilter", "InvalidWeights", "ok"}
        /\ outcome = "ParameterNotFound" => ColumnMissing
        /\ (outcome = "EmptyAfterFilter" /\ scaled = <<>>) =>
              (~ColumnMissing /\ NoRowInRanges)
        /\ outcome = "InvalidWeights" =>
              (~ColumnMissing /\ ~NoRowInRanges /\ WeightSumNotPositive)
        /\ (outcome = "EmptyAfterFilter" /\ scaled # <<>>) =>
              (~ColumnMissing /\ ~NoRowInRanges /\ ~WeightSumNotPositive /\ NoScoreInRange)
        /\ outcome = "ok" =>
              /\ ~ColumnMissing /\ ~NoRowInRanges /\ ~WeightSumNotPositive
              /\ ~NoScoreInRange
              /\ pc = "done" /\ DOMAIN files = {filename}
        /\ outcome # "ok" => DOMAIN files = {}

\* a call that passed the first three checks and failed the score range
C3_Witness ==
    /\ Readable /\ pc = "error" /\ outcome = "EmptyAfterFilter" /\ scaled # <<>>
    /\ Len(params) = 2 /\ total_weight > 0
    /\ \E i \in DOMAIN ranges : ~ranges[i].min.none

\* C7: the per-column range step keeps exactly the rows whose requested values
\* are all present and satisfy min <= v <= max for every bound given (a bound
\* itself included, an absent bound not limiting), and raises EmptyAfterFilter
\* exactly when it keeps none; the score range step does the same with the
\* WeightedScore and min_score/max_score.
C7_InclusiveRanges ==
    [][ /\ (pc = "filter" /\ pc' # "filter") =>
              LET keep == {r \in DOMAIN working.rows :
                              \A i \in DOMAIN params :
                                  LET cell == working.rows[r][ColPos(working, params[i])]
                                  IN  ~IsNa(cell) /\ Within(cell.v, ranges'[i])}
              IN  /\ Len(working'.rows) = Cardinality(keep)
                  /\ \A j \in DOMAIN working'.rows :
                        /\ working'.rows[j] = working.rows[Nth(keep, j)]
                        /\ working'.index[j] = working.index[Nth(keep, j)]
                  /\ (keep = {}) <=> (pc' = "error" /\ outcome' = "EmptyAfterFilter")
        /\ (pc = "scorefilter" /\ pc' # "scorefilter") =>
              LET keep == {r \in DOMAIN working.rows :
                              /\ min_score'.none \/
                                    FracLe(Frac(min_score'.n, min_score'.d), ScoreKeys(working)[r])
                              /\ max_score'.none \/
                                    FracLe(ScoreKeys(working)[r], Frac(max_score'.n, max_score'.d))}
              IN  /\ Len(working'.rows) = Cardinality(keep)
                  /\ \A j \in DOMAIN working'.rows :
                        working'.rows[j] = working.rows[Nth(keep, j)]
                  /\ (keep = {}) <=> (pc' = "error" /\ outcome' = "EmptyAfterFilter")
      ]_vars

\* a one-sided minimum of 10: a row with exactly 10 kept, a row below it dropped
C7_Witness ==
    /\ pc = "weights"
    /\ \E i \in DOMAIN params :
          /\ ranges[i] = [min |-> Some(10, 1), max |-> None]
          /\ \E r \in DOMAIN working.rows :
                working.rows[r][ColPos(working, params[i])].v = 10
          /\ \E r \in DOMAIN numeric_df.rows :
                numeric_df.rows[r][ColPos(numeric_df, params[i])] = Num(5)

----------------------------------------------------------------------------
(* Concurrent requests.  The development server started by app.run serves   *)
(* each request on its own thread; the threads share pyplot's figure         *)
(* registry and the graphs directory.  Each request below has passed its     *)
(* data checks and runs its plotting code one pyplot call at a time.         *)

NumCalls == 2
Requests == 1..NumCalls
Kinds == {"single", "weighted"}

IdleCall ==
    [kind |-> "single", pc |-> "idle", fig |-> 0, preference |-> "lower",
     name |-> NoFile, saved |-> {}, fresh |-> TRUE]

\* apply_dark_theme is imported from single_compare but its body is not in the
\* sources; it is taken to set style parameters only, leaving the open figures
\* as they are
apply_dark_theme(p) == p

\* the name each kind of call composes around its random prefix
ChartName(c, u) ==
    IF c.kind = "single"
    THEN [hex |-> u, rest |-> <<tPrice.s, c.preference>>]
    ELSE [hex |-> u, rest |-> <<"weighted_compare">>]

InitCharts ==
    /\ file = [exists |-> TRUE, ext |-> ".csv"]
    /\ raw = <<>>
    /\ NotLoaded /\ CallIdle /\ WorkIdle
    /\ plt = NoFigures /\ files = <<>> /\ filename = NoFile
    /\ calls = [i \in Requests |-> IdleCall]

\* what the plotting code of a request leaves alone
chartFrame == <<tableVars, pc, outcome, callVars, workVars, filename>>

At(i, kind, where) == calls[i].kind = kind /\ calls[i].pc = where
Goto(i, where) == calls' = [calls EXCEPT ![i].pc = where]

\* a request reaches the plotting code of one of the two generators
Arrive(i) ==
    /\ calls[i].pc = "idle"
    /\ \E kind \in Kinds, preference \in Preferences :
         calls' = [calls EXCEPT ![i].kind = kind,
                                ![i].preference = IF kind = "single" THEN preference
                                                  ELSE "higher",
                                ![i].pc = IF kind = "single" THEN "figure" ELSE "theme"]
    /\ UNCHANGED <<plt, files, chartFrame>>

\* single_compare.py:128  plt.figure(figsize=(10, 6))
SingleFigure(i) ==
    /\ At(i, "single", "figure")
    /\ plt' = PltFigure(plt)
    /\ Goto(i, "bars")
    /\ UNCHANGED <<files, chartFrame>>

\* single_compare.py:129-134  plt.barh(...)
SingleBars(i) ==
    /\ At(i, "single", "bars")
    /\ plt' = PltDraw(plt, {Bars(i)})
    /\ Goto(i, "texts")
    /\ UNCHANGED <<files, chartFrame>>

\* single_compare.py:136-140  plt.xlabel, plt.ylabel, plt.title, ...
SingleTexts(i) ==
    /\ At(i, "single", "texts")
    /\ plt' = PltDraw(plt, {Texts(i)})
    /\ Goto(i, "save")
    /\ UNCHANGED <<files, chartFrame>>

\* weighted_compare.py:96  apply_dark_theme()
WeightedTheme(i) ==
    /\ At(i, "weighted", "theme")
    /\ plt' = apply_dark_theme(plt)
    /\ Goto(i, "subplots")
    /\ UNCHANGED <<files, chartFrame>>

\* weighted_compare.py:101  fig, ax = plt.subplots(...)
WeightedSubplots(i) ==
    /\ At(i, "weighted", "subplots")
    /\ plt' = PltFigure(plt)
    /\ calls' = [calls EXCEPT ![i].fig = plt.next, ![i].pc = "bars"]
    /\ UNCHANGED <<files, chartFrame>>

\* weighted_compare.py:103-105  ax.bar, ax.set_ylabel, ax.set_title
WeightedBars(i) ==
    /\ At(i, "weighted", "bars")
    /\ plt' = DrawOn(plt, calls[i].fig, {Bars(i)})
    /\ Goto(i, "texts")
    /\ UNCHANGED <<files, chartFrame>>

\* weighted_compare.py:106-109  plt.xticks(rotation=90), fig.tight_layout, ...
WeightedTexts(i) ==
    /\ At(i, "weighted", "texts")
    /\ plt' = PltDraw(plt, {Texts(i)})
    /\ Goto(i, "save")
    /\ UNCHANGED <<files, chartFrame>>

\* single_compare.py:144-146, weighted_compare.py:111-113: a name around ten
\* random hex digits, then plt.savefig(full_path)
SaveChart(i) ==
    /\ calls[i].pc = "save"
    /\ \E u \in HexIds :
         LET name == ChartName(calls[i], u)
         IN  /\ files' = Savefig(files, plt, name)
             /\ calls' = [calls EXCEPT ![i].name = name,
                                       ![i].saved = Savefig(files, plt, name)[name],
                                       ![i].fresh = name \notin DOMAIN files,
                                       ![i].pc = "close"]
    /\ plt' = PltGcf(plt)
    /\ UNCHANGED chartFrame

\* single_compare.py:147, weighted_compare.py:114  plt.close()
CloseChart(i) ==
    /\ calls[i].pc = "close"
    /\ plt' = PltClose(plt)
    /\ Goto(i, "done")
    /\ UNCHANGED <<files, chartFrame>>

NextCharts ==
    \E i \in Requests :
        \/ Arrive(i)
        \/ SingleFigure(i)
        \/ SingleBars(i)
        \/ SingleTexts(i)
        \/ WeightedTheme(i)
        \/ WeightedSubplots(i)
        \/ WeightedBars(i)
        \/ WeightedTexts(i)
        \/ SaveChart(i)
        \/ CloseChart(i)

SpecCharts == InitCharts /\ [][NextCharts]_vars

Saved == {i \in Requests : calls[i].pc \in {"close", "done"}}

\* C9: every successful call writes one file whose name was not in the graphs
\* directory before; the directory holds as many files as calls have saved.
C9_OneNewFilePerCall ==
    /\ \A i \in Saved : calls[i].fresh
    /\ Cardinality(DOMAIN files) = Cardinality(Saved)

\* two finished single compare calls, one file
C9_Witness ==
    /\ \A i \in Requests : calls[i].kind = "single" /\ calls[i].pc = "done"
    /\ calls[1].name = calls[2].name
    /\ ~calls[2].fresh
    /\ Cardinality(DOMAIN files) = 1

\* C10: the image a request saves holds exactly that request's bars and texts.
C10_OwnImageOnly ==
    \A i \in Saved : calls[i].saved = {Bars(i), Texts(i)}

\* two single compare calls: the first saved an image holding the second's bars
C10_Witness ==
    /\ \A i \in Requests : calls[i].kind = "single"
    /\ 1 \in Saved
    /\ Bars(2) \in calls[1].saved

----------------------------------------------------------------------------
(* The /single_compare route of app.py, for an authenticated session.  One  *)
(* request is served: calls holds it, with its position in the handler, the  *)
(* handler's local names bound so far, the messages flashed and the          *)
(* generators called.                                                        *)

Absent == [k |-> "absent", s |-> <<>>, v |-> 0]
tHigher == Text(<<"h", "i", "g", "h", "e", "r">>)
tLower == Text(<<"l", "o", "w", "e", "r">>)

\* request.form of a GET request
EmptyForm ==
    [parameter |-> Absent, preference |-> Absent, min_value |-> Absent,
     top_n |-> Absent, generate_scatter |-> FALSE]
Forms ==
    [parameter : {Absent, tPrice, tCity}, preference : {Absent, tHigher},
     min_value : {Absent, t5, tX}, top_n : {Absent, t2, tX},
     generate_scatter : BOOLEAN]
RouteTables ==
    { <<>>,
      <<<<tName, tPrice, tQty>>, <<tD, tX, NaN>>>>,
      <<<<tName, tPrice, tQty>>, <<tA, t10, t1>>>>,
      <<<<tName, tPrice, tQty>>, <<tA, t10, t1>>, <<tB, t5, t1>>>> }

NewRequest(method, form) ==
    [method |-> method, form |-> form, pc |-> "file", locals |-> <<>>,
     flashes |-> <<>>, generators |-> {}, response |-> ""]

\* extract_numeric_headers on the rows of the file
ExtractNumericHeaders(rws) ==
    IF FrameEmpty(DetectValidData(rws).numeric_df) THEN <<>>
    ELSE DetectValidData(rws).numeric_df.columns

\* float(request.form.get(name)) if request.form.get(name) else None; None on ValueError
FormFloat(cell) ==
    IF cell = Absent \/ IsNa(ToNumeric(cell)) THEN None ELSE Some(ToNumeric(cell).v, 1)
\* int(request.form.get('top_n', 10)); 10 on any exception
FormTopN(cell) ==
    IF cell = Absent \/ IsNa(ToNumeric(cell)) THEN DefaultTopN ELSE ToNumeric(cell).v

\* binding a local name
Bind(locals, name, value) ==
    [n \in DOMAIN locals \cup {name} |-> IF n = name THEN value ELSE locals[n]]
Flash(r, message) == [r EXCEPT !.flashes = Append(@, message)]
Respond(r, response) == [r EXCEPT !.response = response, !.pc = "responded"]

\* generate_single_compare_chart as the route calls it, with min_value and
\* max_value keywords: the generator of single_compare.py has no such
\* parameters, so there the call raises TypeError; a generator taking them
\* returns a file name or raises
BarChartOutcomes == {"returned", "raised"}
\* generate_scatter_plot is imported from single_compare; its body is not in
\* the sources: it returns a file name or raises
ScatterOutcomes == {"returned", "raised"}

InitRoute ==
    /\ file \in [exists : BOOLEAN, ext : {".csv", ".txt"}]
    /\ raw \in RouteTables
    /\ NotLoaded /\ CallIdle /\ WorkIdle
    /\ plt = NoFigures /\ files = <<>> /\ filename = NoFile
    /\ \E method \in {"GET", "POST"} :
         \E form \in IF method = "GET" THEN {EmptyForm} ELSE Forms :
            calls = <<NewRequest(method, form)>>

routeFrame ==
    <<tableVars, pc, outcome, callVars, workVars, plt, files, filename>>

\* app.py:187-192
CheckUploadedFile ==
    /\ calls[1].pc = "file"
    /\ calls' = IF ~file.exists
                THEN <<Respond(Flash(calls[1], "No uploaded file found"), "redirect home")>>
                ELSE <<[calls[1] EXCEPT !.pc = "headers"]>>
    /\ UNCHANGED routeFrame

\* app.py:194-204
ReadHeaders ==
    /\ calls[1].pc = "headers"
    /\ calls' =
         IF file.ext \notin {".csv", ".xls", ".xlsx"}
         THEN <<Respond(Flash(calls[1], "Failed to read uploaded file"), "redirect home")>>
         ELSE IF ExtractNumericHeaders(raw) = <<>>
         THEN <<Respond(Flash(calls[1], "no numeric columns"), "redirect home")>>
         ELSE <<[calls[1] EXCEPT !.pc = "selection",
                                 !.locals = Bind(@, "headers", ExtractNumericHeaders(raw))]>>
    /\ UNCHANGED routeFrame

\* app.py:207-209  if request.method == 'POST': parameter = ...; preference = ...
ReadSelection ==
    /\ calls[1].pc = "selection"
    /\ calls' =
         IF calls[1].method = "POST"
         THEN <<[calls[1] EXCEPT
                   !.pc = "ranges",
                   !.locals = Bind(Bind(@, "parameter", calls[1].form.parameter),
                                   "preference",
                                   IF calls[1].form.preference = Absent THEN tLower
                                   ELSE calls[1].form.preference)]>>
         ELSE <<[calls[1] EXCEPT !.pc = "ranges"]>>
    /\ UNCHANGED routeFrame

\* app.py:211-234  the ranges and top_n, read from request.form on every method
ReadRanges ==
    /\ calls[1].pc = "ranges"
    /\ calls' = <<[calls[1] EXCEPT
                     !.pc = "dispatch",
                     !.locals = Bind(Bind(Bind(Bind(Bind(@,
                                    "min_value", FormFloat(calls[1].form.min_value)),
                                    "max_value", None),
                                    "scatter_min", None),
                                    "scatter_max", None),
                                    "top_n", Some(FormTopN(calls[1].form.top_n), 1))]>>
    /\ UNCHANGED routeFrame

Needs(names) == \A n \in names : n \in DOMAIN calls[1].locals

\* app.py:237-252  the scatter button
ScatterPlot ==
    /\ calls[1].pc = "dispatch"
    /\ calls[1].form.generate_scatter
    /\ IF ~Needs({"parameter", "preference", "scatter_min", "scatter_max"})
       THEN calls' = <<Respond(Flash(calls[1], "Error generating scatter plot"),
                               "render dropdown")>>
       ELSE \E result \in ScatterOutcomes :
              calls' =
                <<Respond(Flash([calls[1] EXCEPT !.generators =
                                    @ \cup {"generate_scatter_plot"}],
                                IF result = "returned"
                                THEN "Scatter plot generated successfully"
                                ELSE "Error generating scatter plot"),
                          IF result = "returned" THEN "render chart"
                          ELSE "render dropdown")>>
    /\ UNCHANGED routeFrame

\* app.py:254-270  otherwise the bar chart; the arguments are evaluated inside
\* the try block, so a name that was never bound is caught as any other error
BarChart ==
    /\ calls[1].pc = "dispatch"
    /\ ~calls[1].form.generate_scatter
    /\ IF ~Needs({"parameter", "top_n", "preference", "min_value", "max_value"})
       THEN calls' = <<Respond(Flash(calls[1], "Error generating bar chart"),
                               "render dropdown")>>
       ELSE \E result \in BarChartOutcomes :
              calls' =
                <<Respond(Flash([calls[1] EXCEPT !.generators =
                                    @ \cup {"generate_single_compare_chart"}],
                                IF result = "returned"
                                THEN "Bar chart generated successfully"
                                ELSE "Error generating bar chart"),
                          IF result = "returned" THEN "render chart"
                          ELSE "render dropdown")>>
    /\ UNCHANGED routeFrame

NextRoute ==
    \/ CheckUploadedFile
    \/ ReadHeaders
    \/ ReadSelection
    \/ ReadRanges
    \/ ScatterPlot
    \/ BarChart

SpecRoute == InitRoute /\ [][NextRoute]_vars

ChartErrors == {"Error generating bar chart", "Error generating scatter plot"}
Flashed(messages) ==
    \E j \in DOMAIN calls[1].flashes : calls[1].flashes[j] \in messages
\* a GET request whose uploaded file exists and has numeric columns
GetWithHeaders ==
    /\ calls[1].method = "GET"
    /\ "headers" \in DOMAIN calls[1].locals

\* C11: a GET request to /single_compare with an existing uploaded file that
\* has numeric columns calls no chart generator, reports no chart-generation
\* error, and is answered with the dropdown; generators are called only on POST.
C11_GetOnlyRendersDropdown ==
    /\ GetWithHeaders =>
          /\ calls[1].generators = {}
          /\ ~Flashed(ChartErrors)
          /\ calls[1].pc = "responded" => calls[1].response = "render dropdown"
    /\ calls[1].generators # {} => calls[1].method = "POST"

\* a GET request answered with the dropdown and a bar chart error, no generator called
C11_Witness ==
    /\ GetWithHeaders
    /\ calls[1].pc = "responded" /\ calls[1].response = "render dropdown"
    /\ calls[1].generators = {}
    /\ Flashed({"Error generating bar chart"})

----------------------------------------------------------------------------
(* The weighted scorer's working table against the LabeledTable *)

\* the rows of the LabeledTable that carry the label of the working row r
LabeledRows(r) ==
    {j \in DOMAIN df.rows :
        df.rows[j][ColPos(df, label_col.col)] =
            working.rows[r][ColPos(working, label_col.col)]}
Prepared == pc \in {"filter", "weights", "scale", "scorefilter", "plot", "done"}

\* C12: in the working table of generate_weighted_compare_chart every row's
\* value of every requested parameter is the numeric value of that parameter
\* in the LabeledTable row carrying the same label.
C12_ScoredFromOwnRow ==
    Prepared =>
        \A r \in DOMAIN working.rows :
            \A j \in LabeledRows(r) :
                \A i \in DOMAIN params :
                    LET held == working.rows[r][ColPos(working, params[i])]
                    IN  ~IsNa(held) =>
                            held = ToNumeric(df.rows[j][ColPos(df, params[i])])

\* the row labelled D, which has no numeric cell, kept with the price 5 of row B
C12_Witness ==
    /\ pc = "weights" /\ params = <<tPrice>>
    /\ \E r \in DOMAIN working.rows :
          /\ working.rows[r][ColPos(working, tName)] = tD
          /\ working.rows[r][ColPos(working, tPrice)] = Num(5)
    /\ \A r \in DOMAIN working.rows : working.rows[r][ColPos(working, tName)] # tB
    /\ \E j \in DOMAIN df.rows : df.rows[j][ColPos(df, tName)] = tB

====
